---- MODULE Spec2Model ----
(***************************************************************************)
(* Request authentication and connector lifecycle of the document API:     *)
(* the STS temporary-credential store, the JWT and remote-token            *)
(* authentication backends and the error taxonomy they raise.              *)
(***************************************************************************)
EXTENDS Integers, Sequences, FiniteSets, TLC

VARIABLES
    credentials_store,  \* STSConnector.__credentials_store: session name -> <<payload, time>>
    connection,         \* STSConnector.connection of each instance: 0 is None, k the k-th
                        \* session that connect made for the instance
    now,                \* time.time()
    task,               \* the frames of the get_temporary_credentials coroutines
    resolver_calls,     \* per session name: invocations of get_credentials / assume_role
    calls_made,         \* get_temporary_credentials calls started
    last_caller,        \* the task that made the latest of them
    evicted,            \* ids of the payloads removed by the del of line 129
    jwt_config,         \* JwtAuthBackend.config (the strict flag)
    jwt_conn,           \* the connection last handed to JwtAuthBackend.authenticate
    jwt_result,         \* what that authenticate call returned or raised
    jwt_served,         \* JwtAuthBackend.authenticate calls made
    accessed,           \* the latest identity accessor read on the principal it returned
    token_strict,       \* the strict flag of the authentication settings
    token_req,          \* the frames of the TokenAuthBackend.authenticate coroutines
    token_served,       \* TokenAuthBackend.authenticate calls started
    app_state,          \* "boot" until the connectors are attached, then "serving"
    setting,            \* ApplicationSettings: its fields in declaration order
    enabled_connector,  \* what attach_connectors(setting) returned
    datasource,         \* request.state.datasource: <<key, connector>> in insertion order
    lookup,             \* the latest connector lookup and what it returned or raised
    probe,              \* the frame of the readiness coroutine
    lookups_made,       \* connector lookups made
    probes_made,        \* readiness requests started
    raised,             \* the latest errors constructed, oldest first
    response,           \* what the exception handlers answered for the latest of them
    errors_raised,      \* errors constructed
    user_obj,           \* an AuthenticatedUser object (<<>> before it is built)
    select_call,        \* the latest select_project call on it
    selects_made,       \* select_project calls made
    authentication_type, \* get_settings().authentication_config.type ("none": unset)
    user_middleware     \* app.user_middleware: the classes installed, the latest first

sts_vars == <<credentials_store, connection, now, task, resolver_calls,
              calls_made, last_caller, evicted>>

jwt_vars == <<jwt_config, jwt_conn, jwt_result, jwt_served, accessed>>

token_vars == <<token_strict, token_req, token_served>>

registry_vars == <<app_state, setting, enabled_connector, datasource, lookup, probe,
                   lookups_made, probes_made>>

boundary_vars == <<raised, response, errors_raised>>

user_vars == <<user_obj, select_call, selects_made>>

app_vars == <<authentication_type, user_middleware>>

vars == <<sts_vars, jwt_vars, token_vars, registry_vars, boundary_vars, user_vars,
          app_vars>>

\* what the steps of one subsystem leave alone
not_sts == <<jwt_vars, token_vars, registry_vars, boundary_vars, user_vars, app_vars>>
not_jwt == <<sts_vars, token_vars, registry_vars, boundary_vars, user_vars, app_vars>>
not_token == <<sts_vars, jwt_vars, registry_vars, boundary_vars, user_vars, app_vars>>
not_registry == <<sts_vars, jwt_vars, token_vars, boundary_vars, user_vars, app_vars>>
not_boundary == <<sts_vars, jwt_vars, token_vars, registry_vars, user_vars, app_vars>>
not_user == <<sts_vars, jwt_vars, token_vars, registry_vars, boundary_vars, app_vars>>

----------------------------------------------------------------------------
(* Bounds of the model *)

MaxCalls == 3
MaxTime == 1200
MaxJwtRequests == 2
MaxTokenRequests == 2
MaxLookups == 2
MaxProbes == 1
MaxErrors == 2
MaxSelects == 4

Requests == {"r1", "r2"}

Tasks == {"t1", "t2"}
SessionNames == {"alpha", "beta"}
Instances == {"plain", "role"}
TickSteps == {599, 600}

\* STSConnector.__max_age_in_store
MaxAgeInStore == 600

\* AWSAuth of each modelled instance: assume_role unset ("") or a role arn
AwsConfig ==
    [i \in Instances |->
        IF i = "plain" THEN [region |-> "eu-west-1", assume_role |-> ""]
                       ELSE [region |-> "us-east-1", assume_role |-> "arn:role/reader"]]

----------------------------------------------------------------------------
(* Error taxonomy *)

\* RapidaException.__init__: the composite error code
ErrorCodeOf(error_prefix, service_code, error_code) ==
    error_prefix \o "_" \o service_code \o "_" \o ToString(error_code)

RapidaException(type, status_code, message, error_code) ==
    [type |-> type, status_code |-> status_code, message |-> message,
     error_code |-> ErrorCodeOf("RAPIDA", "KN_API", error_code)]

ConnectorException(type, message, connector_name, error_code) ==
    [type |-> type, status_code |-> 422,
     message |-> connector_name \o ": " \o message,
     error_code |-> ErrorCodeOf("RAPIDA", "KN_API", error_code),
     connector_name |-> connector_name]

ConnectorClientFailureException(connector_name, message) ==
    ConnectorException("ConnectorClientFailureException", message, connector_name, 2001)

ConnectorIllegalNameException(connector_name, message) ==
    ConnectorException("ConnectorIllegalNameException", message, connector_name, 2002)

ConnectorNotThereException(connector_name, message) ==
    ConnectorException("ConnectorNotThereException", message, connector_name, 2003)

ConnectorClientInternalFailureException(connector_name, message) ==
    ConnectorException("ConnectorClientInternalFailureException", message,
                       connector_name, 2004)

AuthenticationException(type, message, auth_type, status_code, error_code) ==
    RapidaException(type, status_code, auth_type \o ": " \o message, error_code)

MissingAuthorizationKeyException(auth_type) ==
    AuthenticationException("MissingAuthorizationKeyException",
                            "Missing Authorization Key", auth_type, 400, 3001)

InvalidAuthorizationTokenException(message) ==
    RapidaException("InvalidAuthorizationTokenException", 401, message, 3002)

\* BridgeException.__init__ sets its fields itself: the error code stays the
\* bare number and str(err) is "<error_code> - <message>"
BridgeException(type, message, bridge_name, error_code) ==
    [type |-> type, status_code |-> 400, message |-> bridge_name \o ": " \o message,
     error_code |-> ToString(error_code), bridge_name |-> bridge_name]

BridgeClientException(message, bridge_name) ==
    BridgeException("BridgeClientException", message, bridge_name, 1001)

BridgeInternalFailureException(message, bridge_name) ==
    BridgeException("BridgeInternalFailureException", message, bridge_name, 1002)

\* RapidaException.__str__
StrOf(e) == e.error_code \o " - " \o e.message

\* the class statements: the base class of each exception type, with
\* InvalidAuthorizationTokenException made an AuthenticationException
BaseClass_InvalidUnderAuthentication(c) ==
    CASE c = "MissingAuthorizationKeyException"        -> "AuthenticationException"
      [] c = "InvalidAuthorizationTokenException"      -> "AuthenticationException"
      [] c = "AuthenticationException"                 -> "RapidaException"
      [] c = "BridgeClientException"                   -> "BridgeException"
      [] c = "BridgeInternalFailureException"          -> "BridgeException"
      [] c = "BridgeException"                         -> "RapidaException"
      [] c = "ConnectorClientFailureException"         -> "ConnectorException"
      [] c = "ConnectorIllegalNameException"           -> "ConnectorException"
      [] c = "ConnectorNotThereException"              -> "ConnectorException"
      [] c = "ConnectorClientInternalFailureException" -> "ConnectorException"
      [] c = "ConnectorException"                      -> "RapidaException"
      [] c = "jwt.DecodeError"                         -> "jwt.InvalidTokenError"
      [] c = "jwt.ExpiredSignatureError"               -> "jwt.InvalidTokenError"
      [] OTHER                                         -> "Exception"

\* the class statements: the base class of each exception type
BaseClass(c) ==
    CASE c = "MissingAuthorizationKeyException"        -> "AuthenticationException"
      [] c = "InvalidAuthorizationTokenException"      -> "RapidaException"
      [] c = "AuthenticationException"                 -> "RapidaException"
      [] c = "BridgeClientException"                   -> "BridgeException"
      [] c = "BridgeInternalFailureException"          -> "BridgeException"
      [] c = "BridgeException"                         -> "RapidaException"
      [] c = "ConnectorClientFailureException"         -> "ConnectorException"
      [] c = "ConnectorIllegalNameException"           -> "ConnectorException"
      [] c = "ConnectorNotThereException"              -> "ConnectorException"
      [] c = "ConnectorClientInternalFailureException" -> "ConnectorException"
      [] c = "ConnectorException"                      -> "RapidaException"
      [] c = "jwt.DecodeError"                         -> "jwt.InvalidTokenError"
      [] c = "jwt.ExpiredSignatureError"               -> "jwt.InvalidTokenError"
      [] OTHER                                         -> "Exception"

\* isinstance(e, cls), as an except clause tests it
RECURSIVE IsSubclass(_, _)
IsSubclass(c, cls) ==
    IF c = cls THEN TRUE
    ELSE IF c = "Exception" THEN FALSE
    ELSE IsSubclass(BaseClass(c), cls)

IsInstance(e, cls) == IsSubclass(e.type, cls)

\* an exception that is no member of the taxonomy (SDK, library or builtin)
RawException(type, message) == [type |-> type, message |-> message]

Return(v) == [kind |-> "return", value |-> v]
Raise(e) == [kind |-> "raise", exc |-> e]
NoResult == [kind |-> "none"]

----------------------------------------------------------------------------
(* STS connector *)

\* STSConnector.name
StsName == "sts"

\* the ways a cloud credential call fails: botocore ConnectionError, botocore
\* ClientError (plain, or the region-disabled error code) and any other Exception
CloudFailures == {"ConnectionError", "ClientError", "RegionDisabled", "Exception"}

CloudFailureMessage(f) ==
    CASE f = "ConnectionError" -> "could not connect to the endpoint"
      [] f = "ClientError"     -> "access denied"
      [] f = "RegionDisabled"  -> "region disabled"
      [] OTHER                 -> "unexpected failure"

\* the except clauses of STSConnector._operate
OperateOnError(f) ==
    CASE f = "ConnectionError" ->
            Raise(ConnectorClientFailureException(StsName, CloudFailureMessage(f)))
      [] f = "ClientError" ->
            Raise(ConnectorClientFailureException(StsName, CloudFailureMessage(f)))
      [] f = "RegionDisabled" ->
            Raise(ConnectorClientFailureException(StsName, "Illegal region for sts."))
      [] OTHER ->
            Raise(ConnectorClientFailureException(StsName, CloudFailureMessage(f)))

\* the ways AWSConnector.get_credentials fails: the session finds no
\* credentials (get_credentials() gives None, whose get_frozen_credentials is
\* an AttributeError) or a credential provider raises
CredentialFailures == {"NoCredentials", "CredentialRetrievalError"}

\* AWSConnector.get_credentials has no except clause: the failure leaves as raised
GetCredentialsOnError(f) ==
    IF f = "NoCredentials"
    THEN Raise(RawException("AttributeError",
                            "'NoneType' object has no attribute 'get_frozen_credentials'"))
    ELSE Raise(RawException("botocore.exceptions.CredentialRetrievalError",
                            "error when retrieving credentials"))

\* dict.get(session_name, None): <<>> stands for None
StoreGet(store, n) == IF n \in DOMAIN store THEN store[n] ELSE <<>>

\* a del that empties the store
StoreDel_Clears(store, n) == [k \in {} |-> <<>>]

\* del store[session_name]
StoreDel(store, n) == [k \in (DOMAIN store) \ {n} |-> store[k]]

\* store[session_name] = (payload, time)
StorePut(store, n, payload, t) ==
    [k \in (DOMAIN store) \cup {n} |-> IF k = n THEN <<payload, t>> ELSE store[k]]

\* the age test with the maximum age taken for milliseconds
IsLive_Millis(age) == age < MaxAgeInStore * 1000

\* the age test with the comparison turned around
IsLive_Reversed(age) == age > MaxAgeInStore

\* the age test with an entry of exactly the maximum age still live
IsLive_Inclusive(age) == age <= MaxAgeInStore

\* the age test of get_temporary_credentials
IsLive(age) == age < MaxAgeInStore

\* the **kwargs of a get_temporary_credentials call: none, or arguments that
\* go on to assume_role
NoKwargs == [k \in {} |-> 0]

KwargsSet == {NoKwargs, [DurationSeconds |-> 900]}

\* a store key that tells the instances apart
StoreKey_PerInstance(i, n) == i \o "/" \o n

\* the key under which the store holds the credential of a call: the session
\* name, whatever the instance
StoreKey(i, n) == n

IdleFrame ==
    [pc |-> "idle", inst |-> "plain", session_name |-> "alpha", kwargs |-> NoKwargs,
     store_credentials |-> <<>>, age |-> -1, rid |-> 0, result |-> NoResult]

StsInit ==
    /\ credentials_store = [n \in {} |-> <<>>]
    /\ connection = [i \in Instances |-> 0]
    /\ now = 0
    /\ task = [t \in Tasks |-> IdleFrame]
    /\ resolver_calls = [n \in SessionNames |-> 0]
    /\ calls_made = 0
    /\ last_caller = CHOOSE t \in Tasks : TRUE
    /\ evicted = {}

\* connect without the test of self.connection: a new session at every call
Connect_AlwaysNewSession(conn, i) == [conn EXCEPT ![i] = @ + 1]

\* STSConnector.connect, as awaited at the head of _operate: an instance that
\* holds a connection keeps it, otherwise get_session() makes a new one
Connect(conn, i) ==
    IF conn[i] # 0 THEN conn ELSE [conn EXCEPT ![i] = @ + 1]

RECURSIVE SumOver(_, _)
SumOver(f, S) ==
    IF S = {} THEN 0
    ELSE LET x == CHOOSE y \in S : TRUE IN f[x] + SumOver(f, S \ {x})

\* the payload of a resolution: the dict get_temporary_credentials builds from
\* the cloud answer, told apart by the invocation that produced it, the session
\* name it was asked for and the arguments assume_role was given
FrozenCredential(rid, i, n) ==
    [id |-> rid, via |-> "get_credentials", region |-> AwsConfig[i].region,
     session_name |-> n, kwargs |-> NoKwargs]

StsTemporaryCredential(rid, i, n, kw) ==
    [id |-> rid, via |-> "assume_role", region |-> AwsConfig[i].region,
     session_name |-> n, kwargs |-> kw]

\* await connector.connect() by a user of the connector
ConnectCall(i) ==
    /\ connection' = Connect(connection, i)
    /\ UNCHANGED <<credentials_store, now, task, resolver_calls, calls_made,
                   last_caller, evicted>>
    /\ UNCHANGED not_sts

\* lines 122-127: the entry found is live and its payload is returned
CallServes(t, frame, sc) ==
    /\ task' = [task EXCEPT ![t] =
                   [frame EXCEPT !.pc = "done", !.result = Return(sc[1])]]
    /\ UNCHANGED <<credentials_store, connection, resolver_calls, evicted>>

\* lines 128-146: the entry found, if any, is deleted (del raises KeyError for
\* a key the store does not hold) and the resolver of the instance is awaited
CallResolves(t, frame, sc, rid) ==
    LET i == frame.inst
        n == frame.session_name
    IN IF sc # <<>> /\ StoreKey(i, n) \notin DOMAIN credentials_store
       THEN /\ task' = [task EXCEPT ![t] =
                          [frame EXCEPT !.pc = "done",
                                        !.result = Raise(RawException("KeyError", n))]]
            /\ UNCHANGED <<credentials_store, connection, resolver_calls, evicted>>
       ELSE /\ credentials_store' =
                  IF sc # <<>> THEN StoreDel(credentials_store, StoreKey(i, n))
                               ELSE credentials_store
            /\ evicted' = IF sc # <<>> THEN evicted \cup {sc[1].id} ELSE evicted
            /\ resolver_calls' = [resolver_calls EXCEPT ![n] = @ + 1]
            /\ IF AwsConfig[i].assume_role = ""
               THEN /\ task' = [task EXCEPT ![t] =
                                   [frame EXCEPT !.pc = "get_credentials", !.rid = rid]]
                    /\ UNCHANGED connection
               ELSE /\ task' = [task EXCEPT ![t] =
                                   [frame EXCEPT !.pc = "assume_role", !.rid = rid]]
                    /\ connection' = Connect(connection, i)

\* get_temporary_credentials with a suspension point between the age test and
\* the del of the expired entry
Call_SuspendsBeforeDel(t, i, n, kw) ==
    LET rid == SumOver(resolver_calls, SessionNames) + 1
    IN \/ /\ task[t].pc \in {"idle", "done"}
          /\ calls_made < MaxCalls
          /\ calls_made' = calls_made + 1
          /\ last_caller' = t
          /\ LET sc == StoreGet(credentials_store, StoreKey(i, n))
                 age == IF sc # <<>> THEN now - sc[2] ELSE -1
                 frame == [pc |-> "idle", inst |-> i, session_name |-> n, kwargs |-> kw,
                           store_credentials |-> sc, age |-> age, rid |-> 0,
                           result |-> NoResult]
             IN IF sc # <<>> /\ IsLive(age) THEN CallServes(t, frame, sc)
                ELSE IF sc = <<>> THEN CallResolves(t, frame, sc, rid)
                ELSE /\ task' = [task EXCEPT ![t] = [frame EXCEPT !.pc = "expired"]]
                     /\ UNCHANGED <<credentials_store, connection, resolver_calls,
                                    evicted>>
          /\ UNCHANGED now
          /\ UNCHANGED not_sts
       \/ /\ task[t].pc = "expired"
          /\ task[t].inst = i /\ task[t].session_name = n /\ task[t].kwargs = kw
          /\ CallResolves(t, task[t], task[t].store_credentials, rid)
          /\ UNCHANGED <<now, calls_made, last_caller>>
          /\ UNCHANGED not_sts

\* get_temporary_credentials up to its first suspension: the lookup, the age
\* test, the eviction, and the start of the cloud call
Call(t, i, n, kw) ==
    /\ task[t].pc \in {"idle", "done"}
    /\ calls_made < MaxCalls
    /\ calls_made' = calls_made + 1
    /\ last_caller' = t
    /\ LET sc == StoreGet(credentials_store, StoreKey(i, n))
           age == IF sc # <<>> THEN now - sc[2] ELSE -1
           rid == SumOver(resolver_calls, SessionNames) + 1
           frame == [pc |-> "idle", inst |-> i, session_name |-> n, kwargs |-> kw,
                     store_credentials |-> sc, age |-> age, rid |-> 0,
                     result |-> NoResult]
       IN IF sc # <<>> /\ IsLive(age)
          THEN CallServes(t, frame, sc)
          ELSE CallResolves(t, frame, sc, rid)
    /\ UNCHANGED now
    /\ UNCHANGED not_sts

\* get_credentials returned, with the entry written only when the name has none
GetCredentialsReturns_KeepsFirst(t) ==
    /\ task[t].pc = "get_credentials"
    /\ LET payload == FrozenCredential(task[t].rid, task[t].inst, task[t].session_name)
           key == StoreKey(task[t].inst, task[t].session_name)
       IN /\ credentials_store' =
                IF key \in DOMAIN credentials_store THEN credentials_store
                ELSE StorePut(credentials_store, key, payload, now)
          /\ task' = [task EXCEPT ![t].pc = "done", ![t].result = Return(payload)]
    /\ UNCHANGED <<connection, now, resolver_calls, calls_made, last_caller,
                   evicted>>
    /\ UNCHANGED not_sts

\* get_credentials returned: lines 137-142
GetCredentialsReturns(t) ==
    /\ task[t].pc = "get_credentials"
    /\ LET payload == FrozenCredential(task[t].rid, task[t].inst, task[t].session_name)
       IN /\ credentials_store' =
                StorePut(credentials_store,
                         StoreKey(task[t].inst, task[t].session_name), payload, now)
          /\ task' = [task EXCEPT ![t].pc = "done", ![t].result = Return(payload)]
    /\ UNCHANGED <<connection, now, resolver_calls, calls_made, last_caller,
                   evicted>>
    /\ UNCHANGED not_sts

\* get_credentials raised, with the store written before the outcome is known
GetCredentialsFails_Stores(t, f) ==
    /\ task[t].pc = "get_credentials"
    /\ credentials_store' =
          StorePut(credentials_store, StoreKey(task[t].inst, task[t].session_name),
                   FrozenCredential(0, task[t].inst, task[t].session_name), now)
    /\ task' = [task EXCEPT ![t].pc = "done", ![t].result = GetCredentialsOnError(f)]
    /\ UNCHANGED <<connection, now, resolver_calls,
                   calls_made, last_caller, evicted>>
    /\ UNCHANGED not_sts

\* get_credentials raised
GetCredentialsFails(t, f) ==
    /\ task[t].pc = "get_credentials"
    /\ task' = [task EXCEPT ![t].pc = "done", ![t].result = GetCredentialsOnError(f)]
    /\ UNCHANGED <<credentials_store, connection, now, resolver_calls,
                   calls_made, last_caller, evicted>>
    /\ UNCHANGED not_sts

\* _operate("assume_role") returned: lines 151-167
AssumeRoleReturns(t) ==
    /\ task[t].pc = "assume_role"
    /\ LET payload == StsTemporaryCredential(task[t].rid, task[t].inst,
                                             task[t].session_name, task[t].kwargs)
       IN /\ credentials_store' =
                StorePut(credentials_store,
                         StoreKey(task[t].inst, task[t].session_name), payload, now)
          /\ task' = [task EXCEPT ![t].pc = "done", ![t].result = Return(payload)]
    /\ UNCHANGED <<connection, now, resolver_calls, calls_made, last_caller,
                   evicted>>
    /\ UNCHANGED not_sts

\* the cloud call failed inside _operate
AssumeRoleFails(t, f) ==
    /\ task[t].pc = "assume_role"
    /\ task' = [task EXCEPT ![t].pc = "done", ![t].result = OperateOnError(f)]
    /\ UNCHANGED <<credentials_store, connection, now, resolver_calls,
                   calls_made, last_caller, evicted>>
    /\ UNCHANGED not_sts

\* time passes between two steps of the tasks
Tick(d) ==
    /\ now + d <= MaxTime
    /\ now' = now + d
    /\ UNCHANGED <<credentials_store, connection, task, resolver_calls,
                   calls_made, last_caller, evicted>>
    /\ UNCHANGED not_sts

\* the steps of the calls that the tasks T make with the arguments K
StsSteps(T, K) ==
    \/ \E t \in T, i \in Instances, n \in SessionNames, kw \in K : Call(t, i, n, kw)
    \/ \E t \in T : GetCredentialsReturns(t)
    \/ \E t \in T, f \in CredentialFailures : GetCredentialsFails(t, f)
    \/ \E t \in T : AssumeRoleReturns(t)
    \/ \E t \in T, f \in CloudFailures : AssumeRoleFails(t, f)
    \/ \E d \in TickSteps : Tick(d)

\* concurrent calls of the tasks
StsNext == StsSteps(Tasks, {NoKwargs})

\* one caller at a time, who also connects by hand and passes arguments on
SeqTasks == {"t1"}

StsSeqNext ==
    \/ StsSteps(SeqTasks, KwargsSet)
    \/ \E i \in Instances : ConnectCall(i)


----------------------------------------------------------------------------
(* Principals *)

AnonymousUser == [variant |-> "AnonymousUser"]

InternalAuthenticatedUser(userId, projectId, organizationId) ==
    [variant |-> "InternalAuthenticatedUser", userId |-> userId,
     projectId |-> projectId, organizationId |-> organizationId]

\* the identity accessors that the principals share, and the field each one
\* reads on an InternalAuthenticatedUser
Accessors == {"user_id", "project_id", "organization_id"}

FieldOf(accessor) ==
    CASE accessor = "user_id" -> "userId"
      [] accessor = "project_id" -> "projectId"
      [] accessor = "organization_id" -> "organizationId"

\* the properties of InternalAuthenticatedUser
InternalAuthenticatedUser_get(self, accessor) == Return(self[FieldOf(accessor)])

\* properties of AnonymousUser that answer None
AnonymousUser_get_ReturnsNone(self, accessor) == Return(<<>>)

\* the properties of AnonymousUser
AnonymousUser_get(self, accessor) ==
    Raise(InvalidAuthorizationTokenException("anonymous user doen't have any attribute."))

\* principal.<accessor> on what the JWT backend hands out
GetAttr(principal, accessor) ==
    IF principal.variant = "AnonymousUser" THEN AnonymousUser_get(principal, accessor)
    ELSE InternalAuthenticatedUser_get(principal, accessor)

NoAccess == [accessor |-> "none", result |-> NoResult]

\* a header that conn.headers.get finds absent (None)
NoHeader == "<none>"

\* "not value" of a header value: None and the empty string
Falsy(h) == h \in {NoHeader, ""}

\* dict.get(key) of a claims dict; 0 stands for None too, both being falsy
DictGet(d, k) == IF k \in DOMAIN d THEN d[k] ELSE 0

----------------------------------------------------------------------------
(* JWT backend *)

JwtClaimNames == {"userId", "projectId", "organizationId"}

\* the decoded payloads of the modelled tokens: any subset of the three claims
JwtPayloads ==
    UNION { [D -> {0, 7}] : D \in SUBSET JwtClaimNames }

\* the tokens of the modelled requests, by what jwt.decode makes of them
JwtTokens ==
    { [decodes |-> "payload", payload |-> p] : p \in JwtPayloads }
    \cup { [decodes |-> "jwt.DecodeError", reason |-> r] :
              r \in {"Not enough segments", "Signature verification failed"} }
    \cup { [decodes |-> "jwt.ExpiredSignatureError", reason |-> "Signature has expired"] }

JwtConns ==
    { [header |-> h, token |-> [decodes |-> "none"]] : h \in {NoHeader, ""} }
    \cup { [header |-> "Bearer", token |-> tk] : tk \in JwtTokens }

\* jwt.decode(authorization, secret, algorithms)
JwtDecode(token) ==
    IF token.decodes = "payload" THEN Return(token.payload)
    ELSE Raise(RawException(token.decodes, token.reason))

\* InternalAuthenticatedUser.parse_obj: the three int fields are required
ParseInternalUser(payload) ==
    IF JwtClaimNames \subseteq DOMAIN payload
    THEN Return(<<TRUE, InternalAuthenticatedUser(payload["userId"], payload["projectId"],
                                                  payload["organizationId"])>>)
    ELSE Raise(RawException("pydantic.ValidationError", "field required"))

\* the try block of JwtAuthBackend.authenticate, lines 58-69
JwtTryBlock(conn) ==
    IF Falsy(conn.header)
    THEN Raise(MissingAuthorizationKeyException("JWT"))
    ELSE LET decoded == JwtDecode(conn.token)
         IN IF decoded.kind = "raise" THEN decoded
            ELSE IF DOMAIN decoded.value = {} \/ DictGet(decoded.value, "userId") = 0
            THEN Raise(InvalidAuthorizationTokenException("invalid token payload."))
            ELSE ParseInternalUser(decoded.value)

\* except DecodeError, lines 70-74
JwtOnDecodeError(err) ==
    Raise(InvalidAuthorizationTokenException("unable to decode given token. " \o err.message))

\* except AuthenticationException handing the anonymous user out as authenticated
JwtOnAuthenticationException_FlagsAnonymous(config, ex) ==
    IF config.strict THEN Raise(ex) ELSE Return(<<TRUE, AnonymousUser>>)

\* except AuthenticationException with the strict flag not consulted
JwtOnAuthenticationException_AlwaysDegrades(config, ex) ==
    Return(<<FALSE, AnonymousUser>>)

\* except AuthenticationException, lines 75-79
JwtOnAuthenticationException(config, ex) ==
    IF config.strict THEN Raise(ex) ELSE Return(<<FALSE, AnonymousUser>>)

\* JwtAuthBackend.authenticate: the try block and the first except clause that
\* matches what it raised; what a handler raises leaves the function
JwtAuthenticate(config, conn) ==
    LET body == JwtTryBlock(conn)
    IN IF body.kind = "return" THEN body
       ELSE IF IsInstance(body.exc, "jwt.DecodeError") THEN JwtOnDecodeError(body.exc)
       ELSE IF IsInstance(body.exc, "AuthenticationException")
            THEN JwtOnAuthenticationException(config, body.exc)
       ELSE body

JwtInit ==
    /\ jwt_config \in { [strict |-> b] : b \in BOOLEAN }
    /\ jwt_conn = [header |-> NoHeader, token |-> [decodes |-> "none"]]
    /\ jwt_result = NoResult
    /\ jwt_served = 0
    /\ accessed = NoAccess

\* the JWT backend while another subsystem is looked at
JwtParked ==
    /\ jwt_config = [strict |-> FALSE]
    /\ jwt_conn = [header |-> NoHeader, token |-> [decodes |-> "none"]]
    /\ jwt_result = NoResult
    /\ jwt_served = 0
    /\ accessed = NoAccess

\* one request through the JWT backend (authenticate has no suspension point)
JwtRequest(conn) ==
    /\ jwt_served < MaxJwtRequests
    /\ jwt_served' = jwt_served + 1
    /\ jwt_conn' = conn
    /\ jwt_result' = JwtAuthenticate(jwt_config, conn)
    /\ accessed' = NoAccess
    /\ UNCHANGED jwt_config
    /\ UNCHANGED not_jwt

\* the handler of the request reads an identity accessor of request.user, the
\* principal that authenticate returned
JwtAccess(accessor) ==
    /\ jwt_served > 0
    /\ jwt_result.kind = "return"
    /\ accessed' = [accessor |-> accessor,
                    result |-> GetAttr(jwt_result.value[2], accessor)]
    /\ UNCHANGED <<jwt_config, jwt_conn, jwt_result, jwt_served>>
    /\ UNCHANGED not_jwt

JwtNext ==
    \/ \E conn \in JwtConns : JwtRequest(conn)
    \/ \E accessor \in Accessors : JwtAccess(accessor)

----------------------------------------------------------------------------
(* Remote-token backend *)

ProjectRole(id, projectId) ==
    [id |-> id, projectId |-> projectId, role |-> "member", projectName |-> "p"]

\* the projectRoles lists of the modelled identity responses
ProjectRoleLists ==
    { <<>>,
      <<ProjectRole(1, 42)>>,
      <<ProjectRole(1, 7), ProjectRole(2, 42)>>,
      <<ProjectRole(1, 42), ProjectRole(2, 42)>> }

FullUserInfo(roles) ==
    [user |-> [id |-> 1, name |-> "n", email |-> "e"],
     token |-> [id |-> 1, token |-> "tok", tokenType |-> "bearer"],
     organizationRole |-> [id |-> 1, organizationId |-> 9, role |-> "owner",
                           organizationName |-> "o"],
     projectRoles |-> roles]

\* what the identity RPC answers: nothing (None or {}), a dict without "user",
\* a dict with "user" alone, or the full payload
UserInfos ==
    { [k \in {} |-> 0],
      [error |-> "denied"],
      [user |-> [id |-> 1, name |-> "n", email |-> "e"]] }
    \cup { FullUserInfo(roles) : roles \in ProjectRoleLists }

\* how the identity RPC fails: the bridge reports a transport failure or a
\* failure answered by the remote service
ResolverFailures ==
    { BridgeClientException("connection refused", "auth"),
      BridgeInternalFailureException("token revoked", "auth") }

ProjectHeaders == {NoHeader, "42", "042", "7", "abc"}

TokenConns ==
    [authorization : {NoHeader, "token"}, auth_id : {NoHeader, "u1"},
     project_id : ProjectHeaders]

\* int(project_id)
IntOf(str) ==
    CASE str = "42" -> Return(42)
      [] str = "042" -> Return(42)
      [] str = "7"  -> Return(7)
      [] OTHER      -> Raise(RawException("ValueError", "invalid literal for int()"))

\* AuthenticatedUser(**user_info): the four fields are required
AuthenticatedUser(user_info) ==
    IF {"user", "token", "organizationRole", "projectRoles"} \subseteq DOMAIN user_info
    THEN Return([variant |-> "AuthenticatedUser", user |-> user_info.user,
                 token |-> user_info.token,
                 organizationRole |-> user_info.organizationRole,
                 projectRoles |-> user_info.projectRoles,
                 currentProject |-> <<>>])
    ELSE Raise(RawException("pydantic.ValidationError", "field required"))

\* AuthenticatedUser.select_project: the user after the call and what the call
\* returned (<<>> is None) or raised; int() is evaluated at each entry compared
RECURSIVE SelectProjectFrom(_, _, _)
SelectProjectFrom(user, project_id, k) ==
    IF k > Len(user.projectRoles)
    THEN [user |-> user, out |-> Return(<<>>)]
    ELSE LET wanted == IntOf(project_id)
         IN IF wanted.kind = "raise" THEN [user |-> user, out |-> wanted]
            ELSE IF user.projectRoles[k].projectId = wanted.value
            THEN [user |-> [user EXCEPT !.currentProject = <<user.projectRoles[k]>>],
                  out |-> Return(<<user.projectRoles[k]>>)]
            ELSE SelectProjectFrom(user, project_id, k + 1)

\* select_project forgetting the selected project when nothing matches
select_project_ClearsOnMiss(user, project_id) ==
    LET call == SelectProjectFrom(user, project_id, 1)
    IN IF call.out = Return(<<>>)
       THEN [user |-> [call.user EXCEPT !.currentProject = <<>>], out |-> call.out]
       ELSE call

select_project(user, project_id) == SelectProjectFrom(user, project_id, 1)

\* lines 74-84: what authenticate does with the answer of the resolver
TokenAfterResolver(conn, user_info) ==
    IF DOMAIN user_info = {} \/ "user" \notin DOMAIN user_info
    THEN Raise(InvalidAuthorizationTokenException("illegal token payload."))
    ELSE LET built == AuthenticatedUser(user_info)
         IN IF built.kind = "raise" THEN built
            ELSE IF Falsy(conn.project_id) THEN Return(<<TRUE, built.value>>)
            ELSE LET selected == select_project(built.value, conn.project_id)
                 IN IF selected.out.kind = "raise" THEN selected.out
                    ELSE Return(<<TRUE, selected.user>>)

\* except BridgeException with the bridge error let through as it is
TokenOnBridgeException_Reraises(err) == Raise(err)

\* except BridgeException, lines 85-89
TokenOnBridgeException(err) ==
    Raise(InvalidAuthorizationTokenException("Token request is not valid. " \o StrOf(err)))

\* except AuthenticationException with the raise of line 92 in force
TokenOnAuthenticationException_Raises(strict, ex) == Raise(ex)

\* except AuthenticationException, lines 90-94
TokenOnAuthenticationException(strict, ex) == Return(<<FALSE, AnonymousUser>>)

\* except RapidaException with the strict test of lines 97-98 in force
TokenOnRapidaException_Strict(strict, ex) ==
    IF strict THEN Raise(ex) ELSE Return(<<FALSE, AnonymousUser>>)

\* except RapidaException, lines 95-99
TokenOnRapidaException(strict, ex) == Return(<<FALSE, AnonymousUser>>)

\* the inner try statement: what leaves it, given what its body did
TokenInnerTry(body) ==
    IF body.kind = "raise" /\ IsInstance(body.exc, "BridgeException")
    THEN TokenOnBridgeException(body.exc)
    ELSE body

\* the outer try statement: the result of authenticate and the exception its
\* handler caught (and logged), <<>> when none was caught
TokenOuterTry(strict, body) ==
    IF body.kind = "return" THEN [result |-> body, caught |-> <<>>]
    ELSE IF IsInstance(body.exc, "AuthenticationException")
         THEN [result |-> TokenOnAuthenticationException(strict, body.exc),
               caught |-> <<body.exc>>]
    ELSE IF IsInstance(body.exc, "RapidaException")
         THEN [result |-> TokenOnRapidaException(strict, body.exc),
               caught |-> <<body.exc>>]
    ELSE [result |-> body, caught |-> <<>>]

\* AuthenticationMiddleware: the request goes on to the handler when
\* authenticate returns a pair
RequestProceeds(result) == result.kind = "return"

\* handle_lomotif_error with JResponse.default_on_error and JResponse.render
ErrorEnvelope(exc) ==
    [success |-> (200 <= exc.status_code /\ exc.status_code <= 299),
     content |-> [error_message |-> exc.message, detail |-> StrOf(exc)],
     code |-> exc.status_code]

IdleRequest ==
    [pc |-> "idle",
     conn |-> [authorization |-> NoHeader, auth_id |-> NoHeader, project_id |-> NoHeader],
     resolver |-> NoResult, result |-> NoResult, caught |-> <<>>]

TokenInit ==
    /\ token_strict \in BOOLEAN
    /\ token_req = [r \in Requests |-> IdleRequest]
    /\ token_served = 0

\* the remote-token backend while another subsystem is looked at
TokenParked ==
    /\ token_strict = FALSE
    /\ token_req = [r \in Requests |-> IdleRequest]
    /\ token_served = 0

\* authenticate up to the await of the resolver: lines 66-71
TokenBegin(r, conn) ==
    /\ token_req[r].pc \in {"idle", "done"}
    /\ token_served < MaxTokenRequests
    /\ token_served' = token_served + 1
    /\ IF Falsy(conn.authorization) \/ Falsy(conn.auth_id)
       THEN LET out == TokenOuterTry(token_strict,
                          Raise(MissingAuthorizationKeyException("token-auth")))
            IN token_req' = [token_req EXCEPT ![r] =
                   [pc |-> "done", conn |-> conn, resolver |-> NoResult,
                    result |-> out.result, caught |-> out.caught]]
       ELSE token_req' = [token_req EXCEPT ![r] =
                   [pc |-> "awaiting", conn |-> conn, resolver |-> NoResult,
                    result |-> NoResult, caught |-> <<>>]]
    /\ UNCHANGED token_strict
    /\ UNCHANGED not_token

\* the resolver answered, with the answers handed out to one request at a time:
\* a request resumes only when no other request is awaiting
TokenResolverReturns_Serial(r, user_info) ==
    /\ token_req[r].pc = "awaiting"
    /\ \A q \in Requests \ {r} : token_req[q].pc # "awaiting"
    /\ LET out == TokenOuterTry(token_strict,
                      TokenInnerTry(TokenAfterResolver(token_req[r].conn, user_info)))
       IN token_req' = [token_req EXCEPT ![r].pc = "done",
                                         ![r].resolver = Return(user_info),
                                         ![r].result = out.result,
                                         ![r].caught = out.caught]
    /\ UNCHANGED <<token_strict, token_served>>
    /\ UNCHANGED not_token

\* the resolver answered: lines 74-84 and the handlers
TokenResolverReturns(r, user_info) ==
    /\ token_req[r].pc = "awaiting"
    /\ LET out == TokenOuterTry(token_strict,
                      TokenInnerTry(TokenAfterResolver(token_req[r].conn, user_info)))
       IN token_req' = [token_req EXCEPT ![r].pc = "done",
                                         ![r].resolver = Return(user_info),
                                         ![r].result = out.result,
                                         ![r].caught = out.caught]
    /\ UNCHANGED <<token_strict, token_served>>
    /\ UNCHANGED not_token

\* the resolver raised
TokenResolverFails(r, err) ==
    /\ token_req[r].pc = "awaiting"
    /\ LET out == TokenOuterTry(token_strict, TokenInnerTry(Raise(err)))
       IN token_req' = [token_req EXCEPT ![r].pc = "done",
                                         ![r].resolver = Raise(err),
                                         ![r].result = out.result,
                                         ![r].caught = out.caught]
    /\ UNCHANGED <<token_strict, token_served>>
    /\ UNCHANGED not_token

TokenNext ==
    \/ \E r \in Requests, conn \in TokenConns : TokenBegin(r, conn)
    \/ \E r \in Requests, user_info \in UserInfos : TokenResolverReturns(r, user_info)
    \/ \E r \in Requests, err \in ResolverFailures : TokenResolverFails(r, err)

----------------------------------------------------------------------------
(* AuthenticatedUser.select_project on an object that lives on *)

NoCall == [project_id |-> NoHeader, before |-> <<>>, out |-> NoResult]

\* the project ids handed to select_project
ProjectIds == ProjectHeaders \ {NoHeader}

UserInit ==
    /\ user_obj \in { <<AuthenticatedUser(FullUserInfo(roles)).value>> :
                         roles \in ProjectRoleLists }
    /\ select_call = NoCall
    /\ selects_made = 0

\* no user object while another subsystem is looked at
UserParked ==
    /\ user_obj = <<>>
    /\ select_call = NoCall
    /\ selects_made = 0

\* user.select_project(project_id)
SelectProject(project_id) ==
    /\ user_obj # <<>>
    /\ selects_made < MaxSelects
    /\ selects_made' = selects_made + 1
    /\ LET call == select_project(user_obj[1], project_id)
       IN /\ user_obj' = <<call.user>>
          /\ select_call' = [project_id |-> project_id, before |-> user_obj,
                             out |-> call.out]
    /\ UNCHANGED not_user

UserNext == \E project_id \in ProjectIds : SelectProject(project_id)

----------------------------------------------------------------------------
(* Boundary translator *)

TaxonomyTypes ==
    {"AuthenticationException", "MissingAuthorizationKeyException",
     "InvalidAuthorizationTokenException",
     "ConnectorException", "ConnectorClientFailureException",
     "ConnectorIllegalNameException", "ConnectorNotThereException",
     "ConnectorClientInternalFailureException",
     "BridgeException", "BridgeClientException", "BridgeInternalFailureException"}

ErrorMessages == {"connection refused", "timed out"}

\* an error of the given taxonomy type, built with the default arguments of its
\* class
NewError(type, message) ==
    CASE type = "AuthenticationException" ->
            AuthenticationException(type, message, "JWT", 400, 1000)
      [] type = "MissingAuthorizationKeyException" ->
            MissingAuthorizationKeyException("JWT")
      [] type = "InvalidAuthorizationTokenException" ->
            InvalidAuthorizationTokenException(message)
      [] type = "ConnectorException" ->
            ConnectorException(type, message, "redis", 2000)
      [] type = "ConnectorClientFailureException" ->
            ConnectorClientFailureException("redis", message)
      [] type = "ConnectorIllegalNameException" ->
            ConnectorIllegalNameException("redis", message)
      [] type = "ConnectorNotThereException" ->
            ConnectorNotThereException("redis", message)
      [] type = "ConnectorClientInternalFailureException" ->
            ConnectorClientInternalFailureException("redis", message)
      [] type = "BridgeException" ->
            BridgeException(type, message, "auth", 1000)
      [] type = "BridgeClientException" ->
            BridgeClientException(message, "auth")
      [] OTHER ->
            BridgeInternalFailureException(message, "auth")

\* what reaches the exception handlers besides the taxonomy: the validation
\* errors of a request body and of a model, and an exception nobody handles
ValidationErrors ==
    { RawException("fastapi.RequestValidationError", "field required: " \o f) :
         f \in {"name", "size"} }
    \cup { RawException("pydantic.ValidationError", "field required: name") }

UnhandledErrors == { RawException("ValueError", "invalid literal for int()") }

BoundaryErrors ==
    { NewError(type, message) : type \in TaxonomyTypes, message \in ErrorMessages }
    \cup ValidationErrors \cup UnhandledErrors

\* str(exc)
StrOfAny(exc) == IF "error_code" \in DOMAIN exc THEN StrOf(exc) ELSE exc.message

\* JResponse(content, status_code) as render writes it
JResponse(content, status_code) ==
    [success |-> (200 <= status_code /\ status_code <= 299),
     content |-> content, code |-> status_code]

\* JResponse.default_on_error
default_on_error(exc, error_message, error_code) ==
    JResponse([error_message |-> error_message, detail |-> StrOfAny(exc)], error_code)

handle_validation_error(exc) ==
    default_on_error(exc, "validation error for request ensure you have provided all "
                          \o "required fields.", 400)

handle_model_validation_error(exc) ==
    default_on_error(exc, "validation error for request while parsing the response.", 400)

\* the connector handler answering 400 whatever the error carries
handle_connector_client_error_BadRequest(exc) ==
    default_on_error(exc, exc.message, 400)

handle_connector_client_error(exc) ==
    default_on_error(exc, exc.message, exc.status_code)

\* the classes add_all_exception_handler registers a handler for
HandledClasses ==
    {"fastapi.RequestValidationError", "pydantic.ValidationError",
     "ConnectorClientFailureException", "RapidaException"}

\* the handler the framework picks: that of the nearest class of the error
RECURSIVE HandlerClass(_)
HandlerClass(c) ==
    IF c \in HandledClasses THEN c
    ELSE IF c = "Exception" THEN "none"
    ELSE HandlerClass(BaseClass(c))

\* the response for an error that reached the handlers; an error without a
\* handler goes on as raised
Translate(exc) ==
    LET h == HandlerClass(exc.type)
    IN CASE h = "fastapi.RequestValidationError"  -> Return(handle_validation_error(exc))
         [] h = "pydantic.ValidationError"        -> Return(handle_model_validation_error(exc))
         [] h = "ConnectorClientFailureException" -> Return(handle_connector_client_error(exc))
         [] h = "RapidaException"                 -> Return(ErrorEnvelope(exc))
         [] OTHER                                 -> Raise(exc)

BoundaryInit ==
    /\ raised = <<>>
    /\ response = NoResult
    /\ errors_raised = 0

BoundaryParked == BoundaryInit

\* an error is constructed, raised by a handler and reaches the translator
RaiseError(exc) ==
    /\ errors_raised < MaxErrors
    /\ errors_raised' = errors_raised + 1
    /\ raised' = IF Len(raised) < 2 THEN Append(raised, exc) ELSE <<raised[2], exc>>
    /\ response' = Translate(exc)
    /\ UNCHANGED not_boundary

BoundaryNext == \E exc \in BoundaryErrors : RaiseError(exc)

----------------------------------------------------------------------------
(* Connector registry *)

\* the fields of ApplicationSettings that hold a resource, in declaration order
SettingKeys == <<"postgres", "redis", "elastic_search", "storage", "aws">>

\* the class of the value of a field that is set
ConfigTypeOf(key) ==
    CASE key = "postgres"       -> "PostgresConfig"
      [] key = "redis"          -> "RedisConfig"
      [] key = "elastic_search" -> "ElasticSearchConfig"
      [] key = "storage"        -> "AssetStoreConfig"
      [] OTHER                  -> "AWSAuth"

\* the settings objects: each field set to a config of its class or left None
ApplicationSettings ==
    { [k \in 1..Len(SettingKeys) |->
          [key |-> SettingKeys[k],
           type |-> IF SettingKeys[k] \in on THEN ConfigTypeOf(SettingKeys[k])
                    ELSE "NoneType"]] :
      on \in SUBSET { SettingKeys[k] : k \in 1..Len(SettingKeys) } }

RedisConnector(config, name) ==
    [kind |-> "RedisConnector", config |-> config, name |-> name]

ElasticSearchConnector(config, name) ==
    [kind |-> "ElasticSearchConnector", config |-> config, name |-> name]

PostgresConnector(config, name) ==
    [kind |-> "PostgresConnector", config |-> config, name |-> name]

Storage(config) == [kind |-> "Storage", config |-> config]

\* the three if statements with the connector named after its config class
ConnectorsOfField_NamedByType(field) ==
    (IF field.type = "RedisConfig"
     THEN <<RedisConnector(field.type, field.type)>> ELSE <<>>)
    \o (IF field.type = "ElasticSearchConfig"
        THEN <<ElasticSearchConnector(field.type, field.type)>> ELSE <<>>)
    \o (IF field.type = "PostgresConfig"
        THEN <<PostgresConnector(field.type, field.type)>> ELSE <<>>)

\* the three if statements of the loop body of attach_connectors
ConnectorsOfField(field) ==
    (IF field.type = "RedisConfig"
     THEN <<RedisConnector(field.type, field.key)>> ELSE <<>>)
    \o (IF field.type = "ElasticSearchConfig"
        THEN <<ElasticSearchConnector(field.type, field.key)>> ELSE <<>>)
    \o (IF field.type = "PostgresConfig"
        THEN <<PostgresConnector(field.type, field.key)>> ELSE <<>>)

RECURSIVE AttachFrom(_, _)
AttachFrom(s, k) ==
    IF k > Len(s) THEN <<>>
    ELSE ConnectorsOfField(s[k]) \o AttachFrom(s, k + 1)

attach_connectors(s) == AttachFrom(s, 1)

\* attach_storage: a Storage when setting.storage is set, else None (<<>>)
attach_storage(s) ==
    LET set == { k \in DOMAIN s : s[k].key = "storage" /\ s[k].type # "NoneType" }
    IN IF set = {} THEN <<>> ELSE <<Storage(s[CHOOSE k \in set : TRUE].type)>>

\* the datasource of the request state: each connector under its name, the
\* storage under "storage"
RECURSIVE RegisterFrom(_, _)
RegisterFrom(connectors, k) ==
    IF k > Len(connectors) THEN <<>>
    ELSE <<[key |-> connectors[k].name, connector |-> connectors[k]]>>
         \o RegisterFrom(connectors, k + 1)

RegisterDatasource(connectors, storage) ==
    RegisterFrom(connectors, 1)
    \o (IF storage = <<>> THEN <<>> ELSE <<[key |-> "storage", connector |-> storage[1]]>>)

DatasourceKeys(ds) == { ds[k].key : k \in DOMAIN ds }

\* request.state.datasource[key]
DatasourceGet(ds, key) ==
    IF key \in DatasourceKeys(ds)
    THEN Return(ds[CHOOSE k \in DOMAIN ds : ds[k].key = key].connector)
    ELSE Raise(RawException("KeyError", key))

\* str(request.state.datasource): the dict written out, key by key
RECURSIVE DictReprFrom(_, _)
DictReprFrom(ds, k) ==
    IF k > Len(ds) THEN ""
    ELSE (IF k > 1 THEN ", " ELSE "")
         \o "'" \o ds[k].key \o "': <" \o ds[k].connector.kind \o " object>"
         \o DictReprFrom(ds, k + 1)

DictRepr(ds) == "{" \o DictReprFrom(ds, 1) \o "}"

\* get_me with the error of the named lookups
get_me_RaisesNotThere(ds, connection_name) ==
    LET got == DatasourceGet(ds, connection_name)
    IN IF got.kind = "return" THEN got
       ELSE Raise(ConnectorNotThereException(connection_name,
                      connection_name \o " is not enable in env."))

\* get_me(connection_name)(request)
get_me(ds, connection_name) ==
    LET got == DatasourceGet(ds, connection_name)
    IN IF got.kind = "return" THEN got
       ELSE Raise(ConnectorIllegalNameException(connection_name,
                      connection_name \o " not found in context. choose possible keys "
                      \o DictRepr(ds)))

\* the body shared by the named lookups
GetNamed(ds, key) ==
    LET got == DatasourceGet(ds, key)
    IN IF got.kind = "return" THEN got
       ELSE Raise(ConnectorNotThereException(key, key \o " is not enable in env."))

get_me_elastic_search(ds) == GetNamed(ds, "elastic_search")

get_me_redis(ds) == GetNamed(ds, "redis")

get_me_postgres(ds) == GetNamed(ds, "postgres")

get_me_storage(ds) == GetNamed(ds, "storage")

\* get_all_connectors
get_all_connectors(ds) == ds

NamedLookups ==
    {"get_me_elastic_search", "get_me_redis", "get_me_postgres", "get_me_storage"}

\* the key each named lookup asks for
KeyOfLookup(fn) ==
    CASE fn = "get_me_elastic_search" -> "elastic_search"
      [] fn = "get_me_redis"          -> "redis"
      [] fn = "get_me_postgres"       -> "postgres"
      [] OTHER                        -> "storage"

\* the names handed to get_me
LookupNames == {"postgres", "redis", "elastic_search", "storage", "kafka"}

Resolve(fn, name, ds) ==
    CASE fn = "get_me"                -> get_me(ds, name)
      [] fn = "get_me_elastic_search" -> get_me_elastic_search(ds)
      [] fn = "get_me_redis"          -> get_me_redis(ds)
      [] fn = "get_me_postgres"       -> get_me_postgres(ds)
      [] OTHER                        -> get_me_storage(ds)

\* what is_connected() of a registered object answers: Storage.is_connected
\* returns True, a connector reports its connection
IsConnectedAnswers(connector) ==
    IF connector.kind = "Storage" THEN {TRUE} ELSE BOOLEAN

\* how is_connected() of a connector fails
IsConnectedFailures(connector) ==
    IF connector.kind = "Storage" THEN {}
    ELSE { RawException("ConnectionError", "connection refused"),
           ConnectorClientFailureException(connector.name, "connection refused") }

NoLookup == [fn |-> "none", name |-> "", result |-> NoResult]

\* awaited is what the latest await of the frame gave (<<>> before any)
IdleProbe ==
    [pc |-> "idle", at |-> 0, awaited |-> <<>>, connections_status |-> <<>>,
     result |-> NoResult]

RegistryInit ==
    /\ app_state = "boot"
    /\ setting \in ApplicationSettings
    /\ enabled_connector = <<>>
    /\ datasource = <<>>
    /\ lookup = NoLookup
    /\ probe = IdleProbe
    /\ lookups_made = 0
    /\ probes_made = 0

\* the registry while another subsystem is looked at
RegistryParked ==
    /\ app_state = "boot"
    /\ setting = [k \in 1..Len(SettingKeys) |->
                     [key |-> SettingKeys[k], type |-> "NoneType"]]
    /\ enabled_connector = <<>>
    /\ datasource = <<>>
    /\ lookup = NoLookup
    /\ probe = IdleProbe
    /\ lookups_made = 0
    /\ probes_made = 0

\* process start: the connectors and the storage are attached and registered
Startup ==
    /\ app_state = "boot"
    /\ app_state' = "serving"
    /\ enabled_connector' = attach_connectors(setting)
    /\ datasource' = RegisterDatasource(attach_connectors(setting), attach_storage(setting))
    /\ UNCHANGED <<setting, lookup, probe, lookups_made, probes_made>>
    /\ UNCHANGED not_registry

\* a handler resolves a connector
Lookup(fn, name) ==
    /\ app_state = "serving"
    /\ lookups_made < MaxLookups
    /\ fn \in NamedLookups => name = KeyOfLookup(fn)
    /\ lookups_made' = lookups_made + 1
    /\ lookup' = [fn |-> fn, name |-> name, result |-> Resolve(fn, name, datasource)]
    /\ UNCHANGED <<app_state, setting, enabled_connector, datasource, probe, probes_made>>
    /\ UNCHANGED not_registry

\* readiness up to the first await (or to its return when nothing is registered)
ReadinessBegin ==
    /\ app_state = "serving"
    /\ probe.pc \in {"idle", "done"}
    /\ probes_made < MaxProbes
    /\ probes_made' = probes_made + 1
    /\ probe' = IF Len(get_all_connectors(datasource)) = 0
                THEN [pc |-> "done", at |-> 0, awaited |-> <<>>,
                      connections_status |-> <<>>, result |-> Return(<<>>)]
                ELSE [pc |-> "awaiting", at |-> 1, awaited |-> <<>>,
                      connections_status |-> <<>>, result |-> NoResult]
    /\ UNCHANGED <<app_state, setting, enabled_connector, datasource, lookup, lookups_made>>
    /\ UNCHANGED not_registry

\* line 30 with the entry written as connected whatever the connector said
IsConnectedReturns_ReportsTrue(b) ==
    /\ probe.pc = "awaiting"
    /\ b \in IsConnectedAnswers(datasource[probe.at].connector)
    /\ LET status == Append(probe.connections_status,
                            [key |-> datasource[probe.at].key, is_connected |-> TRUE])
       IN probe' = IF probe.at = Len(datasource)
                   THEN [pc |-> "done", at |-> probe.at, awaited |-> <<b>>,
                         connections_status |-> status, result |-> Return(status)]
                   ELSE [pc |-> "awaiting", at |-> probe.at + 1, awaited |-> <<b>>,
                         connections_status |-> status, result |-> NoResult]
    /\ UNCHANGED <<app_state, setting, enabled_connector, datasource, lookup,
                   lookups_made, probes_made>>
    /\ UNCHANGED not_registry

\* the awaited is_connected() returns b: line 30, then the next key or line 31
IsConnectedReturns(b) ==
    /\ probe.pc = "awaiting"
    /\ b \in IsConnectedAnswers(datasource[probe.at].connector)
    /\ LET status == Append(probe.connections_status,
                            [key |-> datasource[probe.at].key, is_connected |-> b])
       IN probe' = IF probe.at = Len(datasource)
                   THEN [pc |-> "done", at |-> probe.at, awaited |-> <<b>>,
                         connections_status |-> status, result |-> Return(status)]
                   ELSE [pc |-> "awaiting", at |-> probe.at + 1, awaited |-> <<b>>,
                         connections_status |-> status, result |-> NoResult]
    /\ UNCHANGED <<app_state, setting, enabled_connector, datasource, lookup,
                   lookups_made, probes_made>>
    /\ UNCHANGED not_registry

\* the awaited is_connected() raises: nothing in readiness catches it
IsConnectedRaises(exc) ==
    /\ probe.pc = "awaiting"
    /\ exc \in IsConnectedFailures(datasource[probe.at].connector)
    /\ probe' = [probe EXCEPT !.pc = "done", !.result = Raise(exc)]
    /\ UNCHANGED <<app_state, setting, enabled_connector, datasource, lookup,
                   lookups_made, probes_made>>
    /\ UNCHANGED not_registry

AllIsConnectedFailures ==
    { RawException("ConnectionError", "connection refused") }
    \cup { ConnectorClientFailureException(n, "connection refused") : n \in LookupNames }

RegistryNext ==
    \/ Startup
    \/ \E fn \in NamedLookups \cup {"get_me"}, name \in LookupNames : Lookup(fn, name)
    \/ ReadinessBegin
    \/ \E b \in BOOLEAN : IsConnectedReturns(b)
    \/ \E exc \in AllIsConnectedFailures : IsConnectedRaises(exc)

----------------------------------------------------------------------------
(* Specifications *)

\* the authentication middleware add_all_enabled_middleware installs
\* the remote-token backend installed whenever the type is not "jwt"
InstalledAuthMiddleware_TokenByDefault(type) ==
    IF type = "jwt" THEN {"JwtAuthorizationMiddleware"}
    ELSE {"TokenAuthorizationMiddleware"}

InstalledAuthMiddleware(type) ==
    (IF type = "jwt" THEN {"JwtAuthorizationMiddleware"} ELSE {})
    \cup (IF type = "token" THEN {"TokenAuthorizationMiddleware"} ELSE {})

\* app.add_middleware(cls, ...): the class goes on top of the stack
add_middleware(stack, cls) == <<cls>> \o stack

\* add_all_enabled_middleware(app, setting): the stack it leaves
add_all_enabled_middleware(stack, type) ==
    LET auth == InstalledAuthMiddleware(type)
        with_jwt == IF "JwtAuthorizationMiddleware" \in auth
                    THEN add_middleware(stack, "JwtAuthorizationMiddleware") ELSE stack
        with_token == IF "TokenAuthorizationMiddleware" \in auth
                      THEN add_middleware(with_jwt, "TokenAuthorizationMiddleware")
                      ELSE with_jwt
    IN add_middleware(
           add_middleware(add_middleware(with_token, "CORSMiddleware"),
                          "RequestLoggerMiddleware"),
           "ContextualLoggingMiddleware")

Installed(stack) == { stack[k] : k \in 1..Len(stack) }

\* the application is created: add_all_enabled_middleware runs once
AddAllEnabledMiddleware ==
    /\ user_middleware = <<>>
    /\ user_middleware' = add_all_enabled_middleware(user_middleware, authentication_type)
    /\ UNCHANGED authentication_type
    /\ UNCHANGED <<sts_vars, jwt_vars, token_vars, registry_vars, boundary_vars,
                   user_vars>>

Init ==
    /\ StsInit /\ JwtParked /\ TokenParked /\ RegistryParked /\ BoundaryParked /\ UserParked
    /\ authentication_type = "none"
    /\ user_middleware = <<>>

Next == StsNext
Spec == Init /\ [][Next]_vars

JwtSpecInit ==
    /\ StsInit /\ JwtInit /\ TokenParked /\ RegistryParked /\ BoundaryParked /\ UserParked
    /\ authentication_type = "jwt"
    /\ user_middleware = <<>>
JwtSpec == JwtSpecInit /\ [][JwtNext]_vars

TokenSpecInit ==
    /\ StsInit /\ JwtParked /\ TokenInit /\ RegistryParked /\ BoundaryParked /\ UserParked
    /\ authentication_type = "token"
    /\ user_middleware = <<>>
TokenSpec == TokenSpecInit /\ [][TokenNext]_vars

\* the application with either authentication backend installed
AuthSpecInit ==
    /\ StsInit /\ JwtInit /\ TokenInit /\ RegistryParked /\ BoundaryParked /\ UserParked
    /\ authentication_type \in {"jwt", "token", "none", "basic"}
    /\ user_middleware = <<>>
AuthNext ==
    \/ AddAllEnabledMiddleware
    \/ "JwtAuthorizationMiddleware" \in Installed(user_middleware) /\ JwtNext
    \/ "TokenAuthorizationMiddleware" \in Installed(user_middleware) /\ TokenNext
AuthSpec == AuthSpecInit /\ [][AuthNext]_vars

RegistrySpecInit ==
    /\ StsInit /\ JwtParked /\ TokenParked /\ RegistryInit /\ BoundaryParked /\ UserParked
    /\ authentication_type = "none"
    /\ user_middleware = <<>>
RegistrySpec == RegistrySpecInit /\ [][RegistryNext]_vars

BoundarySpecInit ==
    /\ StsInit /\ JwtParked /\ TokenParked /\ RegistryParked /\ BoundaryInit /\ UserParked
    /\ authentication_type = "none"
    /\ user_middleware = <<>>
BoundarySpec == BoundarySpecInit /\ [][BoundaryNext]_vars

UserSpecInit ==
    /\ StsInit /\ JwtParked /\ TokenParked /\ RegistryParked /\ BoundaryParked /\ UserInit
    /\ authentication_type = "none"
    /\ user_middleware = <<>>
UserSpec == UserSpecInit /\ [][UserNext]_vars

StsSeqSpec == Init /\ [][StsSeqNext]_vars

\* the request whose identity RPC does return when awaited; the RPC of the
\* other request may never return
Answered == "r2"

\* the event loop resumes authenticate once the awaited RPC has returned
TokenFairness ==
    WF_vars(\E user_info \in UserInfos : TokenResolverReturns(Answered, user_info))

\* the requests of the progress check: with or without each header; the value
\* of the project header plays no part in who is resumed
LiveConns == { conn \in TokenConns : conn.project_id \in {NoHeader, "42"} }

TokenLiveNext ==
    \/ \E r \in Requests, conn \in LiveConns : TokenBegin(r, conn)
    \/ \E r \in Requests, user_info \in UserInfos : TokenResolverReturns(r, user_info)
    \/ \E r \in Requests, err \in ResolverFailures : TokenResolverFails(r, err)

TokenLiveSpec == TokenSpecInit /\ [][TokenLiveNext]_vars /\ TokenFairness

----------------------------------------------------------------------------
(* Properties of the credential store *)

\* task t enters get_temporary_credentials in this step
Starts(t) == calls_made' = calls_made + 1 /\ last_caller' = t

\* the cloud call of task t comes back (with a result or a failure) in this step
Completes(t) == task[t].pc \in {"get_credentials", "assume_role"} /\ task'[t].pc = "done"

CompletesOk(t) == Completes(t) /\ task'[t].result.kind = "return"

CompletesFailed(t) == Completes(t) /\ task'[t].result.kind = "raise"

\* task t returns a payload to its caller in this step
Returns(t) ==
    /\ task'[t].pc = "done"
    /\ task'[t].result.kind = "return"
    /\ Starts(t) \/ Completes(t)

\* C1: a get_temporary_credentials call made while the stored entry of its
\* session name is younger than 600 seconds returns the stored payload itself,
\* invokes no resolver (the invocation counts stay as they were) and leaves
\* the store as it was.
C1_LiveEntryServedWithoutResolver ==
    [][\A t \in Tasks, n \in SessionNames :
          ( /\ Starts(t)
            /\ task'[t].session_name = n
            /\ n \in DOMAIN credentials_store
            /\ now - credentials_store[n][2] < 600 )
          => ( /\ task'[t].pc = "done"
               /\ task'[t].result = Return(credentials_store[n][1])
               /\ resolver_calls' = resolver_calls
               /\ credentials_store' = credentials_store )]_vars

\* one resolution of a name, then two calls served from the store
C1_Witness ==
    \E t \in Tasks :
        /\ task[t].pc = "done"
        /\ task[t].store_credentials # <<>>
        /\ task[t].age > 0 /\ task[t].age < 600
        /\ task[t].result = Return(task[t].store_credentials[1])
        /\ resolver_calls[task[t].session_name] = 1
        /\ SumOver(resolver_calls, SessionNames) = 1
        /\ calls_made = 3

\* C2: a call that finds the stored entry of its session name older than 600
\* seconds invokes the resolver exactly once; when that resolution succeeds the
\* store holds (new result, now) for the name and the new result is returned;
\* and no call ever returns a payload that was found expired.
C2_ExpiredEntryResolvedAnew ==
    [][\A t \in Tasks :
          /\ ( /\ Starts(t)
               /\ task'[t].session_name \in DOMAIN credentials_store
               /\ now - credentials_store[task'[t].session_name][2] > 600 )
             => ( /\ resolver_calls' =
                       [resolver_calls EXCEPT ![task'[t].session_name] = @ + 1]
                  /\ task'[t].pc \in {"get_credentials", "assume_role"} )
          /\ Completes(t) => resolver_calls' = resolver_calls
          /\ ( CompletesOk(t) /\ task[t].store_credentials # <<>> /\ task[t].age > 600 )
             => ( /\ credentials_store'[task[t].session_name]
                        = <<task'[t].result.value, now>>
                  /\ task'[t].result.value # task[t].store_credentials[1]
                  /\ task'[t].result.value.id # task[t].store_credentials[1].id )
          /\ Returns(t) => task'[t].result.value.id \notin evicted']_vars

\* an entry found at age 1198 was replaced, and the new payload returned
C2_Witness ==
    \E t \in Tasks :
        /\ task[t].pc = "done"
        /\ task[t].store_credentials # <<>>
        /\ task[t].age > 600
        /\ task[t].result.kind = "return"
        /\ task[t].result.value.id # task[t].store_credentials[1].id
        /\ task[t].store_credentials[1].id \in evicted
        /\ resolver_calls[task[t].session_name] = 2
        /\ task[t].session_name \in DOMAIN credentials_store
        /\ credentials_store[task[t].session_name][1] = task[t].result.value

\* C3 as stated: when the resolver of a call fails, the entry of the requested
\* session name after the call is the entry the call found (none, or the
\* expired one); stated for runs in which no other task has made a call.
C3_StoreEqualAfterFailure ==
    \A t \in Tasks :
        ( /\ task[t].pc = "done"
          /\ task[t].result.kind = "raise"
          /\ \A u \in Tasks \ {t} : task[u].pc = "idle" )
        => StoreGet(credentials_store, task[t].session_name) = task[t].store_credentials

\* C3 (amended): the step in which a resolver fails changes no entry of the
\* store, and the lookup step of a call changes no entry except that it
\* removes an entry of the requested name found at age 600 or more; so after
\* a failed resolution the store is the store before the call less the
\* expired entry of the requested name, and nothing is stored for the failure.
C3_FailedResolutionStoresNothing ==
    [][\A t \in Tasks :
          /\ CompletesFailed(t) => credentials_store' = credentials_store
          /\ Starts(t) =>
                \A m \in SessionNames :
                    IF /\ m = task'[t].session_name
                       /\ m \in DOMAIN credentials_store
                       /\ now - credentials_store[m][2] >= 600
                    THEN m \notin DOMAIN credentials_store'
                    ELSE StoreGet(credentials_store', m) = StoreGet(credentials_store, m)]_vars

\* a resolver failed after the call had found and evicted an expired entry
C3_Witness ==
    \E t \in Tasks :
        /\ task[t].pc = "done"
        /\ task[t].result.kind = "raise"
        /\ task[t].store_credentials # <<>>
        /\ task[t].age >= 600
        /\ task[t].session_name \notin DOMAIN credentials_store

\* C4 as stated: every failure that get_temporary_credentials lets out is a
\* ConnectorClientFailureException carrying the connector name "sts".
C4_FailuresAreConnectorClientFailure ==
    \A t \in Tasks :
        ( task[t].pc = "done" /\ task[t].result.kind = "raise" )
        => ( /\ task[t].result.exc.type = "ConnectorClientFailureException"
             /\ task[t].result.exc.connector_name = StsName )

----------------------------------------------------------------------------
(* Properties of the JWT backend *)

JwtDone == jwt_served > 0

JwtHeaderAbsent == Falsy(jwt_conn.header)

JwtUndecodable == ~JwtHeaderAbsent /\ jwt_conn.token.decodes = "jwt.DecodeError"

JwtDecoded == ~JwtHeaderAbsent /\ jwt_conn.token.decodes = "payload"

JwtLacksUserId == JwtDecoded /\ "userId" \notin DOMAIN jwt_conn.token.payload

JwtLacksOtherClaim ==
    /\ JwtDecoded
    /\ "userId" \in DOMAIN jwt_conn.token.payload
    /\ ~(JwtClaimNames \subseteq DOMAIN jwt_conn.token.payload)

JwtReturnedAnonymous == jwt_result = Return(<<FALSE, AnonymousUser>>)

\* C5 as stated: with strict = false, authenticate answers every malformed
\* input (header absent, token undecodable, payload without userId, payload
\* missing another claim) by returning (False, AnonymousUser()), and raises
\* nothing.
C5_NonStrictNeverRaises ==
    ( /\ JwtDone
      /\ ~jwt_config.strict
      /\ JwtHeaderAbsent \/ JwtUndecodable \/ JwtLacksUserId \/ JwtLacksOtherClaim )
    => JwtReturnedAnonymous

\* C9: a token whose decoded payload has no userId claim makes authenticate
\* raise InvalidAuthorizationTokenException (code 3002, status 401), whatever
\* the other claims and whatever the strict flag.
C9_MissingUserIdIsInvalidToken ==
    ( JwtDone /\ JwtLacksUserId )
    => ( /\ jwt_result.kind = "raise"
         /\ jwt_result.exc.type = "InvalidAuthorizationTokenException"
         /\ jwt_result.exc.error_code = "RAPIDA_KN_API_3002"
         /\ jwt_result.exc.status_code = 401 )

\* a non-strict backend was given a payload with projectId and organizationId
\* but no userId, and raised
C9_Witness ==
    /\ JwtDone
    /\ ~jwt_config.strict
    /\ JwtDecoded
    /\ DOMAIN jwt_conn.token.payload = {"projectId", "organizationId"}
    /\ jwt_result.kind = "raise"
    /\ jwt_result.exc.type = "InvalidAuthorizationTokenException"

----------------------------------------------------------------------------
(* Properties of the remote-token backend *)

TokenDone(r) == token_req[r].pc = "done"

\* exactly one of the two required headers is there
TokenOneHeaderMissing(r) ==
    Falsy(token_req[r].conn.authorization) # Falsy(token_req[r].conn.auth_id)

TokenHeaderMissing(r) ==
    Falsy(token_req[r].conn.authorization) \/ Falsy(token_req[r].conn.auth_id)

TokenResolverFailed(r) == token_req[r].resolver.kind = "raise"

TokenNoUserInResponse(r) ==
    /\ token_req[r].resolver.kind = "return"
    /\ "user" \notin DOMAIN token_req[r].resolver.value

TokenReturnedAnonymous(r) == token_req[r].result = Return(<<FALSE, AnonymousUser>>)

C8_ResolverFailureBecomesInvalidToken ==
    \A r \in Requests :
        ( TokenDone(r) /\ TokenResolverFailed(r) )
        => ( /\ Len(token_req[r].caught) = 1
             /\ token_req[r].caught[1].type = "InvalidAuthorizationTokenException"
             /\ token_req[r].caught[1].status_code = 401
             /\ token_req[r].caught[1].error_code = "RAPIDA_KN_API_3002"
             /\ token_req[r].caught[1].message =
                   "Token request is not valid. " \o StrOf(token_req[r].resolver.exc)
             /\ token_req[r].result # token_req[r].resolver
             /\ token_req[r].result.kind = "raise" =>
                   ~IsInstance(token_req[r].result.exc, "BridgeException") )

\* the resolver has failed with the bridge's internal-failure error
C8_Witness ==
    \E r \in Requests :
        /\ TokenDone(r)
        /\ TokenResolverFailed(r)
        /\ token_req[r].resolver.exc.type = "BridgeInternalFailureException"
        /\ Len(token_req[r].caught) = 1

----------------------------------------------------------------------------
(* Properties of the connector registry *)

LookupDone == lookup.fn # "none"

LookupUnregistered == LookupDone /\ lookup.name \notin DatasourceKeys(datasource)

\* the message ends with the registered keys written out
EnumeratesRegisteredKeys(message, name) ==
    \E tail \in {" not found in context. choose possible keys ", " is not enable in env. "} :
        message = name \o ": " \o name \o tail \o DictRepr(datasource)

RaisedOfType(result, type, code) ==
    /\ result.kind = "raise"
    /\ result.exc.type = type
    /\ "error_code" \in DOMAIN result.exc
    /\ result.exc.error_code = ErrorCodeOf("RAPIDA", "KN_API", code)

ConnectorKindOf(type) ==
    CASE type = "RedisConfig"         -> "RedisConnector"
      [] type = "ElasticSearchConfig" -> "ElasticSearchConnector"
      [] type = "PostgresConfig"      -> "PostgresConnector"
      [] OTHER                        -> "none"

\* C12: attach_connectors(setting) returns exactly one connector for each field
\* whose value is a RedisConfig, ElasticSearchConfig or PostgresConfig, of the
\* matching kind, bound to that config and named after the field; it returns
\* none for any other field, and the names returned are pairwise distinct
C12_OneConnectorPerResourceField ==
    app_state = "serving" =>
        /\ \A k \in DOMAIN setting :
              LET made == { i \in DOMAIN enabled_connector :
                               enabled_connector[i].name = setting[k].key }
              IN IF ConnectorKindOf(setting[k].type) # "none"
                 THEN /\ Cardinality(made) = 1
                      /\ \A i \in made :
                            /\ enabled_connector[i].kind = ConnectorKindOf(setting[k].type)
                            /\ enabled_connector[i].config = setting[k].type
                 ELSE made = {}
        /\ \A i \in DOMAIN enabled_connector :
              \E k \in DOMAIN setting : setting[k].key = enabled_connector[i].name
        /\ \A i, j \in DOMAIN enabled_connector :
              enabled_connector[i].name = enabled_connector[j].name => i = j

\* the settings hold the three resources, a storage and the AWS auth
C12_Witness ==
    /\ app_state = "serving"
    /\ Len(enabled_connector) = 3
    /\ \A k \in DOMAIN setting : setting[k].type # "NoneType"

ProbeDone == probe.pc = "done"

ProbeKeys == { probe.result.value[k].key : k \in DOMAIN probe.result.value }

\* C13: when is_connected raises for a registered connector, readiness still
\* returns, with an entry for every registered connector
C13_ProbeFailureReportedPerConnector ==
    ProbeDone =>
        /\ probe.result.kind = "return"
        /\ ProbeKeys = DatasourceKeys(datasource)

\* what readiness returns has exactly the registered names as keys, each once
\* and in registry order
ProbeReportsEveryConnector ==
    ProbeDone /\ probe.result.kind = "return" =>
        /\ ProbeKeys = DatasourceKeys(datasource)
        /\ Len(probe.result.value) = Len(datasource)
        /\ \A k \in DOMAIN probe.result.value :
              /\ probe.result.value[k].key = datasource[k].key
              /\ probe.result.value[k].is_connected \in BOOLEAN

\* the entry written for a connector carries the value its is_connected()
\* returned, False included, after which readiness goes on to the next
\* connector or returns what it collected
EntryIsWhatConnectorReturned ==
    (probe.pc = "awaiting" /\ probe' # probe /\ probe'.result.kind # "raise") =>
            /\ probe'.awaited # <<>>
            /\ probe'.connections_status =
                  Append(probe.connections_status,
                         [key |-> datasource[probe.at].key,
                          is_connected |-> probe'.awaited[1]])
            /\ probe'.pc = "done" => probe'.result = Return(probe'.connections_status)

\* C14: when readiness returns, the mapping it returns has exactly the
\* registered connector names as keys and, for each, {"is_connected": b} with
\* b the value that connector's is_connected() returned; a connector that
\* reports False yields false and readiness still returns
C14_ProbeReportsWhatConnectorsReturned ==
    []ProbeReportsEveryConnector /\ [][EntryIsWhatConnectorReturned]_vars

\* readiness returned although a connector reported False
C14_Witness ==
    /\ ProbeDone
    /\ probe.result.kind = "return"
    /\ Len(probe.result.value) >= 2
    /\ \E k \in DOMAIN probe.result.value : ~probe.result.value[k].is_connected
    /\ \E k \in DOMAIN probe.result.value : probe.result.value[k].is_connected

----------------------------------------------------------------------------
(* Properties of project selection *)

\* the identity response of request r carried the four parts of a user
TokenValidIdentity(r) ==
    /\ TokenDone(r)
    /\ token_req[r].resolver.kind = "return"
    /\ {"user", "token", "organizationRole", "projectRoles"}
          \subseteq DOMAIN token_req[r].resolver.value

\* the positions of roles whose projectId is the number the string p denotes
MatchingRoles(roles, p) ==
    IF Falsy(p) \/ IntOf(p).kind = "raise" THEN {}
    ELSE { k \in DOMAIN roles : roles[k].projectId = IntOf(p).value }

\* C15: with a valid identity response authenticate returns (True, user) for
\* every value of the x-project-id header; currentProject is an entry of
\* projectRoles whose projectId equals the header value when there is one, and
\* is unset, with no error raised, when none matches or the header is absent
C15_ProjectHeaderNeverFails ==
    \A r \in Requests :
        TokenValidIdentity(r) =>
            LET roles == token_req[r].resolver.value.projectRoles
                matching == MatchingRoles(roles, token_req[r].conn.project_id)
            IN /\ token_req[r].result.kind = "return"
               /\ token_req[r].result.value[1] = TRUE
               /\ token_req[r].result.value[2].variant = "AuthenticatedUser"
               /\ IF matching = {}
                  THEN token_req[r].result.value[2].currentProject = <<>>
                  ELSE \E k \in matching :
                          token_req[r].result.value[2].currentProject = <<roles[k]>>

SelectDone == selects_made > 0

Least(S) == CHOOSE k \in S : \A j \in S : k <= j

\* C16: select_project(p) never changes projectRoles; when projectRoles has an
\* entry whose projectId is int(p), currentProject becomes the first such
\* entry and that entry is returned; when none matches, currentProject keeps
\* the value it had before the call, a project selected earlier included, and
\* None is returned
C16_SelectProjectFrame ==
    SelectDone =>
        LET before == select_call.before[1]
            after == user_obj[1]
            roles == before.projectRoles
            wanted == IntOf(select_call.project_id)
            matching == MatchingRoles(roles, select_call.project_id)
        IN /\ after.projectRoles = roles
           /\ [after EXCEPT !.currentProject = <<>>] = [before EXCEPT !.currentProject = <<>>]
           /\ wanted.kind = "return" =>
                 IF matching # {}
                 THEN /\ after.currentProject = <<roles[Least(matching)]>>
                      /\ select_call.out = Return(<<roles[Least(matching)]>>)
                 ELSE /\ after.currentProject = before.currentProject
                      /\ select_call.out = Return(<<>>)
           /\ wanted.kind = "raise" => after.currentProject = before.currentProject

\* a call that matched nothing was made on a user with a project selected
C16_Witness ==
    /\ SelectDone
    /\ select_call.before[1].currentProject # <<>>
    /\ select_call.out = Return(<<>>)
    /\ user_obj[1].currentProject = select_call.before[1].currentProject
    /\ Len(user_obj[1].projectRoles) >= 2

----------------------------------------------------------------------------
(* Properties of the error taxonomy and of the boundary translator *)

IsTaxonomyError(e) == e.type \in TaxonomyTypes

\* the numeric codes the taxonomy classes define
KnownCodes == {1000, 1001, 1002, 2000, 2001, 2002, 2003, 2004, 3001, 3002}

CompositeCodes == { ErrorCodeOf("RAPIDA", "KN_API", n) : n \in KnownCodes }

BareCodes == { ToString(n) : n \in KnownCodes }

\* the number in the error_code an error carries
NumericCodeOf(e) ==
    CHOOSE n \in KnownCodes :
        e.error_code \in {ErrorCodeOf("RAPIDA", "KN_API", n), ToString(n)}

\* C17: every error of the taxonomy, the Bridge family included, carries the
\* composite error_code "RAPIDA_KN_API_<numeric>" and never the bare number
C17_ErrorCodeIsComposite ==
    \A k \in DOMAIN raised :
        IsTaxonomyError(raised[k]) =>
            /\ raised[k].error_code \in CompositeCodes
            /\ raised[k].error_code \notin BareCodes

LatestError == raised[Len(raised)]

\* the status code the claim gives for each family
StatusOfFamily(type) ==
    CASE type = "MissingAuthorizationKeyException"   -> {400}
      [] type = "InvalidAuthorizationTokenException" -> {401}
      [] IsSubclass(type, "BridgeException")         -> {400}
      [] IsSubclass(type, "ConnectorException")      -> {422}
      [] OTHER                                       -> {400, 401, 422}

\* C19: for a taxonomy error the translator answers the envelope
\* {success: false, content: {error_message, detail}, code} with the message
\* of the error, its str() and its own status_code (400 Missing-Authorization
\* and Bridge, 401 Invalid-Authorization-Token, 422 Connector); for a
\* validation error it answers the envelope with code 400
C19_EnvelopeCarriesStatusCode ==
    errors_raised > 0 =>
        /\ IsTaxonomyError(LatestError) =>
              /\ response =
                    Return([success |-> FALSE,
                            content |->
                                [error_message |-> LatestError.message,
                                 detail |-> LatestError.error_code \o " - "
                                            \o LatestError.message],
                            code |-> LatestError.status_code])
              /\ response.value.code \in StatusOfFamily(LatestError.type)
        /\ LatestError \in ValidationErrors =>
              /\ response.kind = "return"
              /\ response.value.success = FALSE
              /\ response.value.code = 400
              /\ DOMAIN response.value.content = {"error_message", "detail"}
              /\ response.value.content.detail = LatestError.message

\* a validation error and then a connector client failure went through
C19_Witness ==
    /\ Len(raised) = 2
    /\ raised[1].type = "fastapi.RequestValidationError"
    /\ raised[2].type = "ConnectorClientFailureException"
    /\ response.kind = "return"
    /\ response.value.code = 422

----------------------------------------------------------------------------
(* Properties of both authentication backends *)

\* the pair is (True, a principal of the given variant) or (False, AnonymousUser)
WellFormedPair(result, variant) ==
    result.kind = "return" =>
        /\ result.value[1] = TRUE <=> result.value[2].variant # "AnonymousUser"
        /\ result.value[1] = TRUE => result.value[2].variant = variant
        /\ result.value[1] = FALSE => result.value[2] = AnonymousUser

\* C20: every pair authenticate returns has authenticated True exactly when
\* the principal is not an AnonymousUser, the principal then being an
\* InternalAuthenticatedUser (JWT) or an AuthenticatedUser (remote token); a
\* strict JWT backend never returns an AnonymousUser
C20_AuthenticatedIffNotAnonymous ==
    /\ JwtDone =>
          /\ WellFormedPair(jwt_result, "InternalAuthenticatedUser")
          /\ jwt_config.strict /\ jwt_result.kind = "return" =>
                jwt_result.value[2].variant # "AnonymousUser"
    /\ \A r \in Requests :
          TokenDone(r) => WellFormedPair(token_req[r].result, "AuthenticatedUser")

\* a strict JWT backend served two requests and returned an internal user
C20_Witness ==
    /\ authentication_type = "jwt"
    /\ jwt_config.strict
    /\ jwt_served = 2
    /\ jwt_result.kind = "return"
    /\ jwt_result.value[1] = TRUE
    /\ jwt_result.value[2].variant = "InternalAuthenticatedUser"

\* ---------------------------------------------------------------------------
\* Properties of connect
\* ---------------------------------------------------------------------------

\* C21: connect is idempotent: whatever connect calls and credential
\* operations are made, no step gives an instance that holds a connection
\* another session, its session handle stays the one it had
C21_ConnectIdempotent ==
    [][\A i \in Instances : connection[i] # 0 => connection'[i] = connection[i]]_vars

\* the instance with a role connected for an earlier assume_role, whose
\* credential is in the store, and has connected again for the next one
C21_Witness ==
    /\ task["t1"].pc = "assume_role"
    /\ task["t1"].inst = "role"
    /\ \E n \in SessionNames :
          /\ StoreGet(credentials_store, n) # <<>>
          /\ StoreGet(credentials_store, n)[1].via = "assume_role"
          /\ StoreGet(credentials_store, n)[1].region = AwsConfig["role"].region
    /\ connection["role"] = 1

\* ---------------------------------------------------------------------------
\* Properties of the principals
\* ---------------------------------------------------------------------------

\* the token of the latest JWT request decoded to all three claims
JwtAllClaims == JwtDecoded /\ DOMAIN jwt_conn.token.payload = JwtClaimNames

\* C22: a JWT request whose token decodes to the claims userId u, projectId p
\* and organizationId o yields (True, InternalAuthenticatedUser(u, p, o)),
\* whose user_id, project_id and organization_id accessors return u, p and o,
\* and neither the identity resolver nor the credential store is called
C22_ValidJwtYieldsInternalUser ==
    JwtDone /\ JwtAllClaims =>
        LET payload == jwt_conn.token.payload
        IN /\ jwt_result = Return(<<TRUE, InternalAuthenticatedUser(payload["userId"],
                                              payload["projectId"],
                                              payload["organizationId"])>>)
           /\ accessed # NoAccess =>
                 accessed.result = Return(payload[FieldOf(accessed.accessor)])
           /\ token_served = 0
           /\ calls_made = 0

\* an identity accessor was read on the AnonymousUser that authenticate returned
AnonymousAccessed ==
    /\ accessed # NoAccess
    /\ jwt_result.kind = "return"
    /\ jwt_result.value[2] = AnonymousUser

\* C23: every identity accessor of AnonymousUser (user_id, project_id,
\* organization_id) fails with InvalidAuthorizationTokenException, status 401,
\* and never returns a value
C23_AnonymousAccessorsFail ==
    AnonymousAccessed =>
        /\ accessed.accessor \in Accessors
        /\ accessed.result.kind = "raise"
        /\ accessed.result.exc.type = "InvalidAuthorizationTokenException"
        /\ accessed.result.exc.status_code = 401

\* a non-strict backend degraded a request without header to the anonymous
\* user, whose project_id was then read
C23_Witness ==
    /\ AnonymousAccessed
    /\ ~jwt_config.strict
    /\ jwt_result.value[1] = FALSE
    /\ accessed.accessor = "project_id"

\* ---------------------------------------------------------------------------
\* Properties of the credential store under concurrent calls
\* ---------------------------------------------------------------------------

\* the entry under each stored name is one pair (payload, time) whose payload
\* was resolved for that name by a resolver invocation that was made
StoreCoherent ==
    /\ DOMAIN credentials_store \subseteq SessionNames
    /\ \A n \in DOMAIN credentials_store :
          /\ credentials_store[n][1].session_name = n
          /\ credentials_store[n][1].id \in 1..SumOver(resolver_calls, SessionNames)
          /\ credentials_store[n][2] <= now

\* task t starts a call that finds no live entry under name n
ObservesMiss(t, n) ==
    /\ Starts(t)
    /\ task'[t].session_name = n
    /\ \/ n \notin DOMAIN credentials_store
       \/ now - credentials_store[n][2] >= 600

\* what the steps of concurrent calls do to the store and the resolver counts
LastWriteWins ==
    \A t \in Tasks :
        \* a payload returned is the one the call's own resolution of the
        \* name produced, or the stored payload of an earlier one
        /\ Returns(t) =>
              /\ task'[t].result.value.session_name = task'[t].session_name
              /\ \/ Completes(t) /\ task'[t].result.value.id = task[t].rid
                 \/ /\ Starts(t)
                    /\ task'[t].session_name \in DOMAIN credentials_store
                    /\ task'[t].result.value =
                          credentials_store[task'[t].session_name][1]
        \* a call that completes its resolution writes its entry over
        \* whatever the name holds
        /\ CompletesOk(t) =>
              /\ credentials_store' =
                    StorePut(credentials_store, task[t].session_name,
                             task'[t].result.value, now)
              /\ task'[t].result.value.id = task[t].rid
        \* one resolver invocation at most for each call that observed a miss
        /\ \A n \in SessionNames :
              /\ resolver_calls'[n] \in {resolver_calls[n], resolver_calls[n] + 1}
              /\ resolver_calls'[n] # resolver_calls[n] =>
                    \E u \in Tasks : ObservesMiss(u, n)

\* C24: under any interleaving of concurrent calls for one session name the
\* store holds one entry for the name at most, every payload returned was
\* produced by a completed resolution for that name, the resolver is invoked
\* once at most per call that observed a miss, and a call that completes its
\* resolution overwrites the entry, so that after all calls the entry is the
\* one written by the last of them to complete
C24_ConcurrentCallsLastWriteWins ==
    []StoreCoherent /\ [][LastWriteWins]_vars

\* two calls for one name both missed and both resolved; the one that started
\* first completed last, and its entry is the one the store holds
C24_Witness ==
    /\ task["t1"].pc = "done" /\ task["t2"].pc = "done"
    /\ task["t1"].session_name = task["t2"].session_name
    /\ task["t1"].store_credentials = <<>> /\ task["t2"].store_credentials = <<>>
    /\ task["t1"].result.kind = "return" /\ task["t2"].result.kind = "return"
    /\ task["t1"].rid = 1 /\ task["t2"].rid = 2
    /\ resolver_calls[task["t1"].session_name] = 2
    /\ StoreGet(credentials_store, task["t1"].session_name)[1] = task["t1"].result.value

\* C25: the entry of a session name is removed only by a call for that name
\* that finds it expired, and is otherwise changed only by a successful
\* resolution for that name; the passage of time and the calls for other
\* names leave it as it is
C25_EntryChangesOnlyByOwnName ==
    [][\A n \in SessionNames :
          LET before == StoreGet(credentials_store, n)
              after == StoreGet(credentials_store', n)
          IN /\ (before # <<>> /\ after = <<>>) =>
                   \E t \in Tasks :
                       /\ Starts(t)
                       /\ task'[t].session_name = n
                       /\ task'[t].store_credentials = before
                       /\ now - before[2] >= 600
             /\ (after # before /\ after # <<>>) =>
                   \E t \in Tasks :
                       /\ CompletesOk(t)
                       /\ task[t].session_name = n
                       /\ after = <<task'[t].result.value, now>>]_vars

\* the expired entry of one name was evicted by a call for it, while the entry
\* of the other name, as old, is still in the store
C25_Witness ==
    \E n, m \in SessionNames :
        /\ n # m
        /\ n \notin DOMAIN credentials_store
        /\ m \in DOMAIN credentials_store
        /\ now - credentials_store[m][2] >= 600
        /\ \E t \in Tasks :
              /\ task[t].session_name = n
              /\ task[t].store_credentials # <<>>
              /\ task[t].store_credentials[1].id \in evicted
              /\ task[t].store_credentials[2] >= credentials_store[m][2]

\* C26: an entry is served from the store exactly when its age at the lookup
\* is less than 600 seconds; at age 600 or more the call treats it as absent,
\* evicts it and invokes the resolver; so every payload returned from the
\* store has an age below 600 when it is returned
C26_ServedExactlyWhenYoungerThan600 ==
    [][\A t \in Tasks :
          ( Starts(t) /\ task'[t].session_name \in DOMAIN credentials_store ) =>
              LET n == task'[t].session_name
                  entry == credentials_store[n]
                  age == now - entry[2]
                  served == /\ task'[t].pc = "done"
                            /\ task'[t].result = Return(entry[1])
                            /\ credentials_store' = credentials_store
                            /\ resolver_calls' = resolver_calls
                  resolved == /\ task'[t].pc \in {"get_credentials", "assume_role"}
                              /\ n \notin DOMAIN credentials_store'
                              /\ entry[1].id \in evicted'
                              /\ resolver_calls' = [resolver_calls EXCEPT ![n] = @ + 1]
              IN /\ served <=> age < 600
                 /\ resolved <=> age >= 600
                 /\ task'[t].age = age]_vars

\* a call found the entry of its name at age exactly 600, evicted it and went
\* to the resolver
C26_Witness ==
    \E t \in Tasks :
        /\ task[t].pc \in {"get_credentials", "assume_role"}
        /\ task[t].store_credentials # <<>>
        /\ task[t].age = 600
        /\ task[t].store_credentials[1].id \in evicted
        /\ task[t].session_name \notin DOMAIN credentials_store

\* C28: under any interleaving of concurrent calls the del of an expired entry
\* never fails on a missing key: no call ends with a KeyError, and the step
\* that evicts an entry finds it in the store as the call read it
C28_EvictionNeverMissesKey ==
    /\ [](\A t \in Tasks :
             task[t].result.kind = "raise" => task[t].result.exc.type # "KeyError")
    /\ [][\A t \in Tasks :
             ( /\ Starts(t)
               /\ task'[t].store_credentials # <<>>
               /\ task'[t].age >= 600 )
             => /\ task'[t].session_name \in DOMAIN credentials_store
                /\ credentials_store[task'[t].session_name] = task'[t].store_credentials
                /\ task'[t].session_name \notin DOMAIN credentials_store']_vars

\* two calls for one name are awaiting their resolvers, one of which found the
\* entry of the name expired and evicted it
C28_Witness ==
    \E t, u \in Tasks :
        /\ t # u
        /\ task[t].session_name = task[u].session_name
        /\ task[t].pc \in {"get_credentials", "assume_role"}
        /\ task[u].pc \in {"get_credentials", "assume_role"}
        /\ task[t].store_credentials # <<>>
        /\ task[t].age >= 600
        /\ task[t].store_credentials[1].id \in evicted

\* ---------------------------------------------------------------------------
\* Progress of the remote-token backend
\* ---------------------------------------------------------------------------

\* C27: a request whose identity RPC never returns blocks only its own
\* authenticate: a concurrent request whose own RPC returns completes its
\* authenticate, whether or not the other one is still awaiting
C27_HungRequestBlocksOnlyItself ==
    (token_req[Answered].pc = "awaiting") ~> (token_req[Answered].pc = "done")

\* the request that began first is still awaiting its RPC while the one that
\* began after it has had its answer and completed
C27_Witness ==
    /\ token_served = 2
    /\ token_req["r1"].pc = "awaiting"
    /\ token_req[Answered].pc = "done"
    /\ token_req[Answered].resolver.kind = "return"
    /\ token_req[Answered].result.kind = "return"

\* ---------------------------------------------------------------------------
\* Properties of the store across connector instances
\* ---------------------------------------------------------------------------

\* the store is keyed by session names alone
KeyedBySessionName == DOMAIN credentials_store \subseteq SessionNames

\* a lookup that finds the name stored less than 600 seconds ago returns the
\* stored payload, whichever instance is asked, with whatever arguments, and
\* whichever instance stored it
ServedAcrossInstances ==
    \A t \in SeqTasks :
        ( /\ Starts(t)
          /\ task'[t].inst \in Instances
          /\ task'[t].kwargs \in KwargsSet
          /\ task'[t].session_name \in DOMAIN credentials_store
          /\ now - credentials_store[task'[t].session_name][2] < 600 )
        => /\ task'[t].pc = "done"
           /\ task'[t].result = Return(credentials_store[task'[t].session_name][1])
           /\ UNCHANGED <<credentials_store, resolver_calls, connection>>

\* a successful resolution on any instance stores its payload under the name
StoredUnderName ==
    \A t \in SeqTasks :
        CompletesOk(t) =>
            StoreGet(credentials_store', task[t].session_name) =
                <<task'[t].result.value, now>>

\* C29: the store is one map shared by all STSConnector instances and keyed by
\* session name alone: a credential stored under a name by one instance is
\* returned, for 600 seconds, to a lookup of the name on any instance, whatever
\* the assume_role configuration of that instance and the extra arguments of
\* the lookup
C29_StoreSharedAcrossInstances ==
    []KeyedBySessionName /\ [][ServedAcrossInstances /\ StoredUnderName]_vars

\* the instance without a role, asked with extra arguments, returned the
\* credential that the instance with a role had assumed without them
C29_Witness ==
    /\ task["t1"].pc = "done"
    /\ task["t1"].inst = "plain"
    /\ task["t1"].kwargs # NoKwargs
    /\ task["t1"].result.kind = "return"
    /\ task["t1"].result.value.via = "assume_role"
    /\ task["t1"].result.value.region = AwsConfig["role"].region
    /\ task["t1"].result.value.kwargs = NoKwargs
    /\ task["t1"].age > 0

\* ---------------------------------------------------------------------------
\* Properties of the middleware installation
\* ---------------------------------------------------------------------------

\* add_all_enabled_middleware has run
MiddlewareInstalled == user_middleware # <<>>

====
